---- MODULE Spec2Model ----
(***************************************************************************)
(* Retreat accommodation manager (src/main.py, src/schemas.py): rooms,     *)
(* participants and assignments kept in three collections of a document    *)
(* store, the request handlers that validate and write them, and the       *)
(* summary computed from them.                                             *)
(*                                                                         *)
(* Identities.  A stored _id is an ObjectId, modelled as a number.  An     *)
(* identity crosses the API as a string, modelled as <<n, case>>: the 24   *)
(* hex digits of ObjectId n written in lower or in upper case, and n = 0   *)
(* for a string that is no 24-digit hex string.  bson's ObjectId(s)        *)
(* accepts both cases, str(ObjectId) is lower case.                        *)
(*                                                                         *)
(* Room documents carry name, capacity and updated_at, participant         *)
(* documents full_name and updated_at: the other schema fields are plain   *)
(* data that no handler reads except to copy.                              *)
(***************************************************************************)
EXTENDS Integers, Sequences, FiniteSets, TLC

\* rooms, participants, assignments: the collections, _id -> document
\* resp: the last response sent: the handler, its status, the identity it
\*       wrote and, for update_assignment, the document it had read
\* procs: the locals of the create_assignment requests in flight
VARIABLES rooms, participants, assignments, resp, procs

vars == <<rooms, participants, assignments, resp, procs>>
store == <<rooms, participants, assignments>>

\* ---------------------------------------------------------------- bounds
MaxRooms == 1
MaxParticipants == 1
MaxAssignments == 2
MaxCap == 1
MaxTime == 0
NumProcs == 2

\* ObjectIds are drawn from one pool per collection.  An identity that an
\* assignment still names stays reserved after its document is gone, so
\* the pools of rooms and participants hold one identity more than the
\* collection holds documents.
RoomIds == 1..(MaxRooms + 1)
ParticipantIds == (MaxRooms + 2)..(MaxRooms + MaxParticipants + 2)
AssignmentIds == (MaxRooms + MaxParticipants + 3)..(MaxRooms + MaxParticipants + MaxAssignments + 2)
Procs == 1..NumProcs
\* the instants now_utc() can return
Times == 0..MaxTime

\* schemas.py: capacity: int = Field(..., ge=1, le=100); le is cut to MaxCap
MinCapacity == 1

\* ------------------------------------------------------------ identities
InvalidId == 0
Malformed == <<InvalidId, "lower">>
Lower(oid) == <<oid, "lower">>
Upper(oid) == <<oid, "upper">>

\* bson ObjectId(s): the identity a string denotes, InvalidId when it raises
ObjectId(s) == s[1]
\* str(ObjectId): lower-case hex
Str(oid) == Lower(oid)

Days == {1, 2, 3}
\* the stay_days lists that requests carry
StayDaysInputs == {<<1>>, <<2>>, <<1, 1>>, <<1, 2>>, <<1, 2, 3>>, <<1, 4>>}

Range(s) == {s[i] : i \in DOMAIN s}
NoDoc == <<>>
EmptyPayload == [k \in {} |-> 0]
Opt(k, vals) == {EmptyPayload} \cup {k :> v : v \in vals}
\* a filter that lets every field through
FilterKeepsAll(payload, allowed) == payload

\* {k: v for k, v in payload.items() if k in allowed}
Filter(payload, allowed) == [k \in (DOMAIN payload) \cap allowed |-> payload[k]]
\* $set: the given fields replace or extend the stored document's
SetFields(doc, data) ==
    [k \in (DOMAIN doc) \cup (DOMAIN data) |-> IF k \in DOMAIN data THEN data[k] ELSE doc[k]]

RoomAllowed == {"name", "capacity", "gender", "type", "cooling", "amenities"}
ParticipantAllowed == {"full_name", "email", "phone", "gender", "parish", "special_needs", "preference"}
AssignmentAllowed == {"participant_id", "room_id", "stay_days"}

RoomPayloads ==
    {a @@ c : a \in Opt("capacity", 0..MaxCap), c \in Opt("bogus", {1})}
ParticipantPayloads ==
    {a @@ c : a \in Opt("full_name", {"Q"}), c \in Opt("bogus", {1})}

\* ----------------------------------------------------------- the store
\* ObjectId(): a fresh identity, one that names no document and that no
\* assignment refers to; the least such of the collection's pool
UsedIds ==
    (DOMAIN rooms) \cup (DOMAIN participants) \cup (DOMAIN assignments)
      \cup {ObjectId(assignments[a].room_id) : a \in DOMAIN assignments}
      \cup {ObjectId(assignments[a].participant_id) : a \in DOMAIN assignments}
NewObjectId(pool) == CHOOSE i \in pool \ UsedIds : \A j \in pool \ UsedIds : i <= j

\* The identity strings a request can carry for a collection.  A handler
\* reads a path identity only through ObjectId(), so one spelling of each
\* document's identity, one identity that names no document of the
\* collection and one malformed string cover its cases.
Stranger == MaxRooms + MaxParticipants + MaxAssignments + 3
PathIds(coll) == {Malformed, Lower(Stranger)} \cup {Lower(i) : i \in DOMAIN coll}
\* participant_id and room_id of an assignment are stored as given, so the
\* spelling matters; requests spell room identities in both cases
\* (participant identities are compared the same way, main.py:178)
RefIds(coll) == PathIds(coll) \cup {Upper(i) : i \in DOMAIN coll}

\* database.create_document: insert the record with its timestamp
create_document(coll, id, record, now) ==
    (id :> SetFields(record, [updated_at |-> now])) @@ coll

Remove(coll, id) == [i \in (DOMAIN coll) \ {id} |-> coll[i]]

\* a count that leaves out the "_id": {"$ne": excl} clause
CountDocsWithSelf(asg, rid_str, day, excl) ==
    Cardinality({a \in DOMAIN asg : asg[a].room_id = rid_str /\ day \in Range(asg[a].stay_days)})

\* db.assignment.count_documents({"room_id": rid_str, "stay_days": day, "_id": {"$ne": excl}})
CountDocs(asg, rid_str, day, excl) ==
    Cardinality({a \in (DOMAIN asg) \ {excl} :
                    asg[a].room_id = rid_str /\ day \in Range(asg[a].stay_days)})

Response(op, status, id, doc) == [op |-> op, status |-> status, id |-> id, doc |-> doc]

\* ------------------------------------------------------------- rooms
create_room(name, capacity) ==
    /\ Cardinality(DOMAIN rooms) < MaxRooms
    /\ RoomIds \ UsedIds # {}
    /\ \E now \in Times :
         rooms' = create_document(rooms, NewObjectId(RoomIds),
                                  [name |-> name, capacity |-> capacity], now)
    /\ resp' = Response("create_room", 200, NewObjectId(RoomIds), NoDoc)
    /\ UNCHANGED <<participants, assignments, procs>>

\* the handler's outcome: its status and the rooms collection it leaves
UpdateRoom(room_id, payload, now) ==
    LET rid == ObjectId(room_id)
        data == Filter(payload, RoomAllowed)
        status == IF rid = InvalidId THEN 400
                  ELSE IF DOMAIN data = {} THEN 400
                  ELSE IF rid \notin DOMAIN rooms THEN 404
                  ELSE 200
    IN  [status |-> status,
         rooms |-> IF status = 200
                   THEN [rooms EXCEPT ![rid] = SetFields(@, data @@ [updated_at |-> now])]
                   ELSE rooms]

update_room(room_id, payload) ==
    \E now \in Times :
        LET out == UpdateRoom(room_id, payload, now)
        IN  /\ rooms' = out.rooms
            /\ resp' = Response("update_room", out.status,
                                IF out.status = 200 THEN ObjectId(room_id) ELSE InvalidId, NoDoc)
            /\ UNCHANGED <<participants, assignments, procs>>

delete_room(room_id) ==
    LET rid == ObjectId(room_id)
        status == IF rid = InvalidId THEN 400
                  ELSE IF Cardinality({a \in DOMAIN assignments : assignments[a].room_id = Str(rid)}) > 0
                       THEN 409
                  ELSE IF rid \notin DOMAIN rooms THEN 404
                  ELSE 200
    IN  /\ rooms' = IF status = 200 THEN Remove(rooms, rid) ELSE rooms
        /\ resp' = Response("delete_room", status, IF status = 200 THEN rid ELSE InvalidId, NoDoc)
        /\ UNCHANGED <<participants, assignments, procs>>

\* ------------------------------------------------------- participants
create_participant(full_name) ==
    /\ Cardinality(DOMAIN participants) < MaxParticipants
    /\ ParticipantIds \ UsedIds # {}
    /\ \E now \in Times :
         participants' = create_document(participants, NewObjectId(ParticipantIds),
                                         [full_name |-> full_name], now)
    /\ resp' = Response("create_participant", 200, NewObjectId(ParticipantIds), NoDoc)
    /\ UNCHANGED <<rooms, assignments, procs>>

\* the handler's outcome: its status and the participants collection it leaves
UpdateParticipant(participant_id, payload, now) ==
    LET pid == ObjectId(participant_id)
        data == Filter(payload, ParticipantAllowed)
        status == IF pid = InvalidId THEN 400
                  ELSE IF DOMAIN data = {} THEN 400
                  ELSE IF pid \notin DOMAIN participants THEN 404
                  ELSE 200
    IN  [status |-> status,
         participants |-> IF status = 200
                          THEN [participants EXCEPT
                                  ![pid] = SetFields(@, data @@ [updated_at |-> now])]
                          ELSE participants]

update_participant(participant_id, payload) ==
    \E now \in Times :
        LET out == UpdateParticipant(participant_id, payload, now)
        IN  /\ participants' = out.participants
            /\ resp' = Response("update_participant", out.status,
                                IF out.status = 200 THEN ObjectId(participant_id) ELSE InvalidId,
                                NoDoc)
            /\ UNCHANGED <<rooms, assignments, procs>>

delete_participant(participant_id) ==
    LET pid == ObjectId(participant_id)
        status == IF pid = InvalidId THEN 400
                  ELSE IF Cardinality({a \in DOMAIN assignments :
                                         assignments[a].participant_id = Str(pid)}) > 0
                       THEN 409
                  ELSE IF pid \notin DOMAIN participants THEN 404
                  ELSE 200
    IN  /\ participants' = IF status = 200 THEN Remove(participants, pid) ELSE participants
        /\ resp' = Response("delete_participant", status, IF status = 200 THEN pid ELSE InvalidId, NoDoc)
        /\ UNCHANGED <<rooms, assignments, procs>>

\* -------------------------------------------------------- assignments
\* a comparison that is off by one: count > capacity
CapacityExceeded(count, capacity) == count > capacity

\* if count >= room.get("capacity", 0): raise 409
CapacityReached(count, capacity) == count >= capacity

\* the loop over stay_days, in the order given: the first day whose count
\* has reached the capacity, 0 when every day passes
RECURSIVE FirstFullDay(_, _, _, _, _, _)
FirstFullDay(days, i, asg, rid_str, capacity, excl) ==
    IF i > Len(days) THEN 0
    ELSE IF CapacityReached(CountDocs(asg, rid_str, days[i], excl), capacity) THEN days[i]
    ELSE FirstFullDay(days, i + 1, asg, rid_str, capacity, excl)

\* for d in stay_days: if d not in [1, 2, 3]: raise 400
DaysValid(days) == \A i \in DOMAIN days : days[i] \in Days

AssignmentStatus(participant_id, room_id, days) ==
    LET pid == ObjectId(participant_id)
        rid == ObjectId(room_id)
    IN  IF ~DaysValid(days) THEN 400
        ELSE IF pid = InvalidId \/ rid = InvalidId THEN 400
        ELSE IF pid \notin DOMAIN participants THEN 404
        ELSE IF rid \notin DOMAIN rooms THEN 404
        ELSE IF FirstFullDay(days, 1, assignments, Str(rid), rooms[rid].capacity, InvalidId) # 0
             THEN 409
        ELSE 200

\* a create_assignment that inserts before its capacity loop
create_assignment_insert_first(participant_id, room_id, days) ==
    LET status == AssignmentStatus(participant_id, room_id, days)
        inserted == status \in {200, 409}
    IN  /\ inserted => Cardinality(DOMAIN assignments) < MaxAssignments
        /\ \E now \in Times :
             assignments' =
               IF inserted
               THEN create_document(assignments, NewObjectId(AssignmentIds),
                      [participant_id |-> participant_id, room_id |-> room_id, stay_days |-> days],
                      now)
               ELSE assignments
        /\ resp' = Response("create_assignment", status,
                            IF status = 200 THEN NewObjectId(AssignmentIds) ELSE InvalidId, NoDoc)
        /\ UNCHANGED <<rooms, participants, procs>>

create_assignment(participant_id, room_id, days) ==
    LET status == AssignmentStatus(participant_id, room_id, days)
    IN  /\ status = 200 => Cardinality(DOMAIN assignments) < MaxAssignments
        /\ \E now \in Times :
             assignments' =
               IF status = 200
               THEN create_document(assignments, NewObjectId(AssignmentIds),
                      [participant_id |-> participant_id, room_id |-> room_id, stay_days |-> days],
                      now)
               ELSE assignments
        /\ resp' = Response("create_assignment", status,
                            IF status = 200 THEN NewObjectId(AssignmentIds) ELSE InvalidId, NoDoc)
        /\ UNCHANGED <<rooms, participants, procs>>

AssignmentPayloads ==
    {a @@ b @@ c : a \in Opt("participant_id", {Lower(i) : i \in DOMAIN participants}),
                   b \in Opt("room_id", RefIds(rooms) \ {Malformed}),
                   c \in Opt("stay_days", StayDaysInputs)}
      \cup {("bogus" :> 1) @@ c : c \in Opt("stay_days", {<<1>>})}

\* data.get(key, doc.get(key))
Merged(data, doc, key) == IF key \in DOMAIN data THEN data[key] ELSE doc[key]

UpdateAssignmentStatus(assignment_id, payload) ==
    LET aid == ObjectId(assignment_id)
        doc == assignments[aid]
        data == Filter(payload, AssignmentAllowed)
        pid == ObjectId(Merged(data, doc, "participant_id"))
        rid == ObjectId(Merged(data, doc, "room_id"))
        stay_days == Merged(data, doc, "stay_days")
    IN  IF aid = InvalidId THEN 400
        ELSE IF aid \notin DOMAIN assignments THEN 404
        ELSE IF DOMAIN data = {} THEN 400
        ELSE IF pid = InvalidId \/ rid = InvalidId THEN 400
        ELSE IF pid \notin DOMAIN participants THEN 404
        ELSE IF rid \notin DOMAIN rooms THEN 404
        ELSE IF ~DaysValid(stay_days) THEN 400
        ELSE IF FirstFullDay(stay_days, 1, assignments, Str(rid), rooms[rid].capacity, aid) # 0
             THEN 409
        ELSE 200

update_assignment(assignment_id, payload) ==
    LET aid == ObjectId(assignment_id)
        data == Filter(payload, AssignmentAllowed)
        status == UpdateAssignmentStatus(assignment_id, payload)
    IN  /\ \E now \in Times :
             assignments' =
               IF status = 200
               THEN [assignments EXCEPT ![aid] = SetFields(@, data @@ [updated_at |-> now])]
               ELSE assignments
        /\ resp' = Response("update_assignment", status, IF status = 200 THEN aid ELSE InvalidId,
                            IF status = 200 THEN assignments[aid] ELSE NoDoc)
        /\ UNCHANGED <<rooms, participants, procs>>

delete_assignment(assignment_id) ==
    LET aid == ObjectId(assignment_id)
        status == IF aid = InvalidId THEN 400
                  ELSE IF aid \notin DOMAIN assignments THEN 404
                  ELSE 200
    IN  /\ assignments' = IF status = 200 THEN Remove(assignments, aid) ELSE assignments
        /\ resp' = Response("delete_assignment", status, IF status = 200 THEN aid ELSE InvalidId, NoDoc)
        /\ UNCHANGED <<rooms, participants, procs>>

\* ------------------------------------------------------------ summary
Max(a, b) == IF a >= b THEN a ELSE b

\* a difference that is not floored
RemainingUnfloored(capacity, assigned) == capacity - assigned

\* max(per_day_capacity[d] - per_day_totals[d], 0)
Remaining(capacity, assigned) == Max(capacity - assigned, 0)

\* for r in rooms: for d in [1, 2, 3]: per_day_capacity[d] += r.get("capacity", 0)
RECURSIVE PerDayCapacity(_, _)
PerDayCapacity(rs, ids) ==
    IF ids = {} THEN [d \in Days |-> 0]
    ELSE LET r == CHOOSE x \in ids : TRUE
             rest == PerDayCapacity(rs, ids \ {r})
         IN  [d \in Days |-> rest[d] + rs[r].capacity]

\* for d in a.get("stay_days", []): if rid in occupancy and d in [1, 2, 3]:
\*     occupancy[rid][d] += 1; per_day_totals[d] += 1
RECURSIVE CountDays(_, _, _, _)
CountDays(acc, rid_str, days, i) ==
    IF i > Len(days) THEN acc
    ELSE LET d == days[i]
             next == IF rid_str \in DOMAIN acc.occupancy /\ d \in Days
                     THEN [occupancy |-> [acc.occupancy EXCEPT ![rid_str][d] = @ + 1],
                           totals |-> [acc.totals EXCEPT ![d] = @ + 1]]
                     ELSE acc
         IN  CountDays(next, rid_str, days, i + 1)

\* for a in db.assignment.find(): ...
RECURSIVE CountAssignments(_, _, _)
CountAssignments(acc, asg, ids) ==
    IF ids = {} THEN acc
    ELSE LET a == CHOOSE x \in ids : TRUE
         IN  CountAssignments(CountDays(acc, asg[a].room_id, asg[a].stay_days, 1), asg, ids \ {a})

\* the per_day and occupancy parts of the summary; the counts by cooling,
\* type and gender read fields that are not modelled
Summary(rs, ps, asg) ==
    LET empty == [occupancy |-> [k \in {Str(r) : r \in DOMAIN rs} |-> [d \in Days |-> 0]],
                  totals |-> [d \in Days |-> 0]]
        counted == CountAssignments(empty, asg, DOMAIN asg)
        capacity == PerDayCapacity(rs, DOMAIN rs)
    IN  [participants |-> Cardinality(DOMAIN ps),
         rooms |-> Cardinality(DOMAIN rs),
         capacity |-> capacity,
         assigned |-> counted.totals,
         remaining |-> [d \in Days |-> Remaining(capacity[d], counted.totals[d])],
         occupancy |-> counted.occupancy]

summary ==
    /\ resp' = Response("summary", 200, InvalidId, Summary(rooms, participants, assignments))
    /\ UNCHANGED <<rooms, participants, assignments, procs>>

\* ------------------------------------------- concurrent create_assignment
\* One create_assignment request per process, one step per access to the
\* store: the participant lookup, the room lookups, one count per day, the
\* insert.  A process keeps the handler's locals between its steps.
InFlight(pc, participant_id, room_id, days, room, i, count) ==
    [pc |-> pc, participant_id |-> participant_id, room_id |-> room_id, stay_days |-> days,
     room |-> room, i |-> i, count |-> count]
IdleProc == InFlight("idle", Malformed, Malformed, <<>>, NoDoc, 0, 0)

\* main.py:195-207: the days, the identities, the participant lookup
RaceStart(p, participant_id, room_id, days) ==
    LET pid == ObjectId(participant_id)
        rid == ObjectId(room_id)
        status == IF ~DaysValid(days) THEN 400
                  ELSE IF pid = InvalidId \/ rid = InvalidId THEN 400
                  ELSE IF pid \notin DOMAIN participants THEN 404
                  ELSE 200
    IN  /\ procs[p].pc = "idle"
        /\ IF status = 200
           THEN /\ procs' = [procs EXCEPT ![p] =
                               InFlight("find_room", participant_id, room_id, days, NoDoc, 1, 0)]
                /\ UNCHANGED resp
           ELSE /\ resp' = Response("create_assignment", status, InvalidId, NoDoc)
                /\ UNCHANGED procs
        /\ UNCHANGED <<rooms, participants, assignments>>

\* main.py:208-212: the room lookup; the handler keeps the document it read
RaceFindRoom(p) ==
    LET rid == ObjectId(procs[p].room_id)
    IN  /\ procs[p].pc = "find_room"
        /\ IF rid \in DOMAIN rooms
           THEN /\ procs' = [procs EXCEPT ![p].pc = IF Len(procs[p].stay_days) = 0
                                                    THEN "insert" ELSE "count",
                                          ![p].room = rooms[rid]]
                /\ UNCHANGED resp
           ELSE /\ procs' = [procs EXCEPT ![p] = IdleProc]
                /\ resp' = Response("create_assignment", 404, InvalidId, NoDoc)
        /\ UNCHANGED <<rooms, participants, assignments>>

\* main.py:213-216: one turn of the loop, the count of one day
RaceCount(p) ==
    LET me == procs[p]
        count == CountDocs(assignments, Str(ObjectId(me.room_id)), me.stay_days[me.i], InvalidId)
    IN  /\ me.pc = "count"
        /\ IF CapacityReached(count, me.room.capacity)
           THEN /\ procs' = [procs EXCEPT ![p] = IdleProc]
                /\ resp' = Response("create_assignment", 409, InvalidId, NoDoc)
           ELSE /\ procs' = [procs EXCEPT ![p].count = count,
                                          ![p].i = me.i + 1,
                                          ![p].pc = IF me.i = Len(me.stay_days)
                                                    THEN "insert" ELSE "count"]
                /\ UNCHANGED resp
        /\ UNCHANGED <<rooms, participants, assignments>>

\* main.py:218-219: the insert
RaceInsert(p) ==
    LET me == procs[p]
    IN  /\ me.pc = "insert"
        /\ Cardinality(DOMAIN assignments) < MaxAssignments
        /\ \E now \in Times :
             assignments' = create_document(assignments, NewObjectId(AssignmentIds),
                              [participant_id |-> me.participant_id, room_id |-> me.room_id,
                               stay_days |-> me.stay_days], now)
        /\ resp' = Response("create_assignment", 200, NewObjectId(AssignmentIds), NoDoc)
        /\ procs' = [procs EXCEPT ![p] = IdleProc]
        /\ UNCHANGED <<rooms, participants>>

Init ==
    /\ rooms = EmptyPayload
    /\ participants = EmptyPayload
    /\ assignments = EmptyPayload
    /\ resp = Response("none", 200, InvalidId, NoDoc)
    /\ procs = [p \in Procs |-> IdleProc]

Next ==
    \/ \E c \in MinCapacity..MaxCap : create_room("A", c)
    \/ \E s \in PathIds(rooms), pl \in RoomPayloads : update_room(s, pl)
    \/ \E s \in PathIds(rooms) : delete_room(s)
    \/ create_participant("P")
    \/ \E s \in PathIds(participants), pl \in ParticipantPayloads : update_participant(s, pl)
    \/ \E s \in PathIds(participants) : delete_participant(s)
    \/ \E p \in PathIds(participants), r \in RefIds(rooms), days \in StayDaysInputs :
          create_assignment(p, r, days)
    \/ \E s \in PathIds(assignments) :
          \E pl \in (IF ObjectId(s) \in DOMAIN assignments THEN AssignmentPayloads ELSE {EmptyPayload}) :
             update_assignment(s, pl)
    \/ \E s \in PathIds(assignments) : delete_assignment(s)
    \/ summary

Spec == Init /\ [][Next]_vars

\* the requests of Procs run concurrently, their steps interleaved
NextRace ==
    \/ \E c \in MinCapacity..MaxCap : create_room("A", c)
    \/ create_participant("P")
    \/ \E p \in Procs, pid \in PathIds(participants), rid \in PathIds(rooms),
          days \in StayDaysInputs : RaceStart(p, pid, rid, days)
    \/ \E p \in Procs : RaceFindRoom(p)
    \/ \E p \in Procs : RaceCount(p)
    \/ \E p \in Procs : RaceInsert(p)
    \/ \E s \in PathIds(assignments) : delete_assignment(s)

SpecRace == Init /\ [][NextRace]_vars

\* ---------------------------------------------------------- properties
\* the assignments that claim room rid on day d: those whose room_id
\* denotes rid, however it is spelled
Occupants(asg, rid, d) ==
    {a \in DOMAIN asg : ObjectId(asg[a].room_id) = rid /\ d \in Range(asg[a].stay_days)}

RECURSIVE SetSum(_, _)
SetSum(f, S) ==
    IF S = {} THEN 0 ELSE LET x == CHOOSE y \in S : TRUE IN f[x] + SetSum(f, S \ {x})

\* C1: after any sequence of requests, no room has on any day more
\* assignments than its capacity
CapacityNeverExceeded ==
    \A r \in DOMAIN rooms : \A d \in Days :
        Cardinality(Occupants(assignments, r, d)) <= rooms[r].capacity

\* C2: a concurrent create_assignment reaches its insert only after every
\* one of its counts was below the capacity it read, and the assignments of
\* a room and day outnumber the capacity by at most the other requests in
\* flight
RaceInsertsPassedTheirCheck ==
    /\ \A p \in Procs :
          (procs[p].pc = "insert" /\ Len(procs[p].stay_days) > 0)
             => procs[p].count < procs[p].room.capacity
    /\ \A r \in DOMAIN rooms : \A d \in Days :
          CountDocs(assignments, Str(r), d, InvalidId) <= rooms[r].capacity + NumProcs - 1

\* C2, the case: both requests passed the check before either inserted, and
\* the room now holds more assignments on a day than its capacity
RaceOverCapacity ==
    \E r \in DOMAIN rooms : \E d \in Days :
        /\ CountDocs(assignments, Str(r), d, InvalidId) > rooms[r].capacity
        /\ resp.op = "create_assignment" /\ resp.status = 200

\* C3: create_assignment with valid days and the identities of an existing
\* participant and room succeeds exactly when every requested day has fewer
\* assignments in the room than its capacity
CreateSucceedsIffBelowCapacity ==
    \A p \in PathIds(participants), r \in RefIds(rooms), days \in StayDaysInputs :
        (/\ \A i \in DOMAIN days : days[i] \in Days
         /\ ObjectId(p) \in DOMAIN participants
         /\ ObjectId(r) \in DOMAIN rooms)
        => (AssignmentStatus(p, r, days) = 200
              <=> \A d \in Range(days) :
                     Cardinality(Occupants(assignments, ObjectId(r), d))
                        < rooms[ObjectId(r)].capacity)

\* C4: an update of assignment X whose merged participant, room and days
\* are valid succeeds whenever every merged day has fewer OTHER assignments
\* in the merged room than its capacity
UpdateExcludesOwnRecord ==
    \A s \in PathIds(assignments), pl \in AssignmentPayloads :
        LET aid == ObjectId(s)
            given == (DOMAIN pl) \cap AssignmentAllowed
            doc == assignments[aid]
            pid == ObjectId(IF "participant_id" \in given
                            THEN pl.participant_id ELSE doc.participant_id)
            rid == ObjectId(IF "room_id" \in given THEN pl.room_id ELSE doc.room_id)
            days == IF "stay_days" \in given THEN pl.stay_days ELSE doc.stay_days
        IN  (/\ aid \in DOMAIN assignments
             /\ given # {}
             /\ pid \in DOMAIN participants
             /\ rid \in DOMAIN rooms
             /\ \A i \in DOMAIN days : days[i] \in Days
             /\ \A d \in Range(days) :
                   Cardinality(Occupants(assignments, rid, d) \ {aid}) < rooms[rid].capacity)
            => UpdateAssignmentStatus(s, pl) = 200

\* C4, the case: X = (p1, roomA, [1,2]) was updated to [1,2,3] while roomA
\* was full on days 1 and 2, X counted
UpdatedWhileRoomFullWithSelf ==
    /\ resp.op = "update_assignment" /\ resp.status = 200
    /\ resp.doc.stay_days = <<1, 2>>
    /\ assignments[resp.id].stay_days = <<1, 2, 3>>
    /\ assignments[resp.id].room_id = resp.doc.room_id
    /\ LET r == ObjectId(resp.doc.room_id)
       IN  /\ r \in DOMAIN rooms
           /\ rooms[r].capacity >= 1
           /\ \A d \in {1, 2} : Cardinality(Occupants(assignments, r, d)) = rooms[r].capacity

\* C5: deleting an existing room or participant fails with Conflict and
\* changes nothing when an assignment references it, and removes it when
\* none does
DeleteRefusedIffReferenced ==
    [][/\ resp'.op = "delete_room" =>
            \A s \in PathIds(rooms) :
               (delete_room(s) /\ ObjectId(s) \in DOMAIN rooms)
               => IF \E a \in DOMAIN assignments :
                        ObjectId(assignments[a].room_id) = ObjectId(s)
                  THEN resp'.status = 409 /\ UNCHANGED store
                  ELSE resp'.status = 200 /\ ObjectId(s) \notin DOMAIN rooms'
       /\ resp'.op = "delete_participant" =>
            \A s \in PathIds(participants) :
               (delete_participant(s) /\ ObjectId(s) \in DOMAIN participants)
               => IF \E a \in DOMAIN assignments :
                        ObjectId(assignments[a].participant_id) = ObjectId(s)
                  THEN resp'.status = 409 /\ UNCHANGED store
                  ELSE resp'.status = 200 /\ ObjectId(s) \notin DOMAIN participants']_vars

\* C6: a create_assignment or update_assignment that fails leaves the three
\* collections as they were
FailedAssignmentWriteChangesNothing ==
    [][(resp'.op \in {"create_assignment", "update_assignment"} /\ resp'.status # 200)
          => UNCHANGED store]_vars

\* C6, the case: a create_assignment was refused with Conflict while the
\* store held an assignment
AssignmentRefusedForCapacity ==
    /\ resp.op = "create_assignment" /\ resp.status = 409
    /\ DOMAIN assignments # {}

\* C7: update_room and update_participant on an existing record fail with
\* BadRequest and change nothing when the payload has no allow-listed
\* field; otherwise they succeed, set exactly the allow-listed fields given
\* and the timestamp, and store no unknown field
UpdateAppliesAllowListOnly ==
    /\ \A s \in PathIds(rooms), pl \in RoomPayloads, now \in Times :
          LET rid == ObjectId(s)
              given == (DOMAIN pl) \cap RoomAllowed
              out == UpdateRoom(s, pl, now)
          IN  rid \in DOMAIN rooms
              => IF given = {}
                 THEN out.status = 400 /\ out.rooms = rooms
                 ELSE /\ out.status = 200
                      /\ DOMAIN out.rooms = DOMAIN rooms
                      /\ DOMAIN out.rooms[rid] = (DOMAIN rooms[rid]) \cup given
                      /\ \A k \in given : out.rooms[rid][k] = pl[k]
                      /\ \A k \in (DOMAIN rooms[rid]) \ (given \cup {"updated_at"}) :
                            out.rooms[rid][k] = rooms[rid][k]
                      /\ out.rooms[rid].updated_at = now
                      /\ \A o \in (DOMAIN rooms) \ {rid} : out.rooms[o] = rooms[o]
    /\ \A s \in PathIds(participants), pl \in ParticipantPayloads, now \in Times :
          LET pid == ObjectId(s)
              given == (DOMAIN pl) \cap ParticipantAllowed
              out == UpdateParticipant(s, pl, now)
          IN  pid \in DOMAIN participants
              => IF given = {}
                 THEN out.status = 400 /\ out.participants = participants
                 ELSE /\ out.status = 200
                      /\ DOMAIN out.participants = DOMAIN participants
                      /\ DOMAIN out.participants[pid] = (DOMAIN participants[pid]) \cup given
                      /\ \A k \in given : out.participants[pid][k] = pl[k]
                      /\ \A k \in (DOMAIN participants[pid]) \ (given \cup {"updated_at"}) :
                            out.participants[pid][k] = participants[pid][k]
                      /\ out.participants[pid].updated_at = now
                      /\ \A o \in (DOMAIN participants) \ {pid} :
                            out.participants[o] = participants[o]

\* C7, the case: an update of a participant went through and stored the
\* allow-listed field and nothing else
ParticipantUpdated ==
    /\ resp.op = "update_participant" /\ resp.status = 200
    /\ participants[resp.id].full_name = "Q"
    /\ DOMAIN participants[resp.id] = {"full_name", "updated_at"}

\* C8: the summary's remaining of every day is max(capacity - assigned, 0),
\* capacity being the sum of the rooms' capacities, and is never negative
RemainingIsFlooredDifference ==
    resp.op = "summary" =>
        \A d \in Days :
            LET capacity == SetSum([r \in DOMAIN rooms |-> rooms[r].capacity], DOMAIN rooms)
                assigned == resp.doc.assigned[d]
            IN  /\ resp.doc.capacity[d] = capacity
                /\ resp.doc.remaining[d] >= 0
                /\ resp.doc.remaining[d] = IF capacity > assigned THEN capacity - assigned ELSE 0

\* C8, the case: a summary of a store whose assignments of a day outnumber
\* the total capacity
SummaryOverCapacity ==
    /\ resp.op = "summary"
    /\ \E d \in Days : resp.doc.assigned[d] > resp.doc.capacity[d] /\ resp.doc.remaining[d] = 0

\* C9: the summary's occupied counter of room R on day d is the number of
\* assignments with room_id = R whose stay_days contains d, the count the
\* capacity check uses, and the day's assigned total is their sum
SummaryCountsAssignments ==
    resp.op = "summary" =>
        \A d \in Days :
            /\ \A r \in DOMAIN rooms :
                  resp.doc.occupancy[Str(r)][d] = CountDocs(assignments, Str(r), d, InvalidId)
            /\ resp.doc.assigned[d] =
                  SetSum([r \in DOMAIN rooms |-> resp.doc.occupancy[Str(r)][d]], DOMAIN rooms)

\* C10: every stored assignment names an existing participant and an
\* existing room
ReferentialIntegrity ==
    \A a \in DOMAIN assignments :
        /\ ObjectId(assignments[a].participant_id) \in DOMAIN participants
        /\ ObjectId(assignments[a].room_id) \in DOMAIN rooms
====
